---- MODULE Spec2Model ----
(***************************************************************************)
(* EpiAgents simulation engine (src/epiagents/epiagents.js): agents moving *)
(* in clusters, colliding, infecting each other and changing compartment,  *)
(* driven by step() / play() / pause() / stop() and a repeating timer.     *)
(*                                                                         *)
(* Conventions of the model                                                *)
(*  - A probability p of the source is the integer p * ProbOne.  A trial   *)
(*    `Math.random() < p` can succeed iff p > 0 and can fail iff p < 1.    *)
(*  - A JavaScript object whose keys are iterated (`for .. in`) is a       *)
(*    sequence in insertion order.                                         *)
(*  - The history marker "S" is MarkerS, "E" is MarkerE; numeric markers   *)
(*    are the iteration numbers themselves.                                *)
(*  - timer = NoTimer stands for `undefined`; timers is the set of         *)
(*    interval timers registered with setInterval and not yet cleared.     *)
(*  - beforeRuns / afterRuns count the invocations of beforeIteration()    *)
(*    and afterIteration(); op names the last operation performed.         *)
(*  - env.directions is the set of values the random direction index is   *)
(*    drawn from during the run.                                           *)
(*  - thrown is the exception the last operation ended with, NoError when  *)
(*    it returned; an operation that throws leaves the writes it had made. *)
(*  - swaps lists the velocity swaps made by the last operation, each as   *)
(*    the pair of ids <<this.id, agent.id>>.                               *)
(*  - cluster.statesRef is the identity of the object that cluster.states  *)
(*    refers to, and env.template is the module-level SimulationStates: a  *)
(*    write to a catalog reaches every holder of the same object.          *)
(***************************************************************************)
EXTENDS Integers, Sequences, FiniteSets, TLC

VARIABLES config, clusters, agents, agentCounter, state, timer, timers,
          iteration, eventPhase, counters, results,
          beforeRuns, afterRuns, op, env, thrown, swaps

vars == <<config, clusters, agents, agentCounter, state, timer, timers,
          iteration, eventPhase, counters, results,
          beforeRuns, afterRuns, op, env, thrown, swaps>>

----------------------------------------------------------------------------
(* Bounds of the model *)

\* Ticks are explored while iteration < MaxIteration.
MaxIteration == 3
\* afterIteration() is explored while afterRuns < MaxAfterRuns.
MaxAfterRuns == 2
\* beforeIteration() is explored while beforeRuns < MaxBeforeRuns.
MaxBeforeRuns == 2
\* The arrays passed to the array forms of the setters have up to MaxArrLen
\* entries.
MaxArrLen == 2
\* Populations of two agents are advanced while iteration < MaxAgentTicks.
MaxAgentTicks == 2
\* Agents are created while agentCounter <= MaxAgentId.
MaxAgentId == 2
\* The agents slider is moved to values up to MaxAgents.
MaxAgents == 1

----------------------------------------------------------------------------
(* Program constants *)

ProbOne == 10000
MarkerS == -1
MarkerE == -2
NoTimer == 0

\* The exceptions of the model: none, a TypeError of the runtime (a property
\* of undefined is read, or undefined is called), a string thrown by a setter.
NoError == ""
TypeError == "TypeError"
UnknownState == "Unknown state"

\* The identities of the catalog objects: the module-level SimulationStates,
\* the object passed as options.simulationStates, and the copies made by
\* deepCopy for the clusters after the first.
TemplateRef == <<"SimulationStates", 0>>
OptionsRef == <<"options.simulationStates", 0>>

\* `config.clusters.push(config.clusters[0])` without the copy.
sameCluster(cluster, i) == cluster

\* deepCopy(config.clusters[0]) for the cluster at index i: its catalog is a new
\* object.
deepCopyCluster(cluster, i) == [cluster EXCEPT !.statesRef = <<"deepCopy", i>>]

PAUSED == "PAUSED"
PLAYING == "PLAYING"

BEFORE == "BEFORE"
DURING == "DURING"
AFTER == "AFTER"

\* The values the speed slider sets config.interval to.
Intervals == {0, 1}

DIRECTION == << <<-1, -1>>, <<-1, 0>>, <<-1, 1>>, <<0, -1>>,
                <<0, 1>>, <<1, -1>>, <<1, 0>>, <<1, 1>> >>

Transition(to, prob) == [to |-> to, prob |-> prob]

Compartment(name, infected, infectiousness, initialRatio, nextStateProb) ==
    [name |-> name, infected |-> infected, infectiousness |-> infectiousness,
     initialRatio |-> initialRatio,
     initial_proportion |-> [num |-> 0, den |-> 0],
     nextStateProb |-> nextStateProb]

\* The default catalog, in declaration order.
SimulationStates ==
    << Compartment("SUSCEPTIBLE", FALSE, 0, 95,
                   << Transition("VACCINATED", 25) >>),
       Compartment("INFECTED_EXPOSED", TRUE, 0, 3,
                   << Transition("INFECTED_ASYMPTOMATIC", 3300) >>),
       Compartment("INFECTED_ASYMPTOMATIC", TRUE, 1000, 1,
                   << Transition("INFECTED_SYMPTOMATIC", 3300),
                      Transition("RECOVERED", 3300) >>),
       Compartment("INFECTED_SYMPTOMATIC", TRUE, 5000, 1,
                   << Transition("INFECTED_ISOLATED", 1000),
                      Transition("INFECTED_HOSPITAL", 1000),
                      Transition("RECOVERED", 1000) >>),
       Compartment("INFECTED_ISOLATED", TRUE, 10, 0,
                   << Transition("INFECTED_HOSPITAL", 1000),
                      Transition("RECOVERED", 1000) >>),
       Compartment("INFECTED_HOSPITAL", TRUE, 5000, 0,
                   << Transition("INFECTED_ICU", 1000),
                      Transition("RECOVERED", 1000) >>),
       Compartment("INFECTED_ICU", TRUE, 5000, 0,
                   << Transition("DEAD", 5000),
                      Transition("RECOVERED", 1000) >>),
       Compartment("TREATED", TRUE, 10, 0,
                   << Transition("DEAD", 1),
                      Transition("INFECTED_ASYMPTOMATIC", 10) >>),
       Compartment("RECOVERED", FALSE, 0, 0,
                   << Transition("SUSCEPTIBLE", 10),
                      Transition("VACCINATED", 10) >>),
       Compartment("VACCINATED", FALSE, 0, 0,
                   << Transition("SUSCEPTIBLE", 5) >>),
       Compartment("DEAD", FALSE, 0, 0, << >>) >>

\* sim.counters: the compulsory counters, then one per default compartment.
CounterNames ==
    << "alive", "total_initial_infections", "total_simulation_infections",
       "infections" >> \o [i \in 1..Len(SimulationStates) |-> SimulationStates[i].name]

CounterKeys == {CounterNames[i] : i \in 1..Len(CounterNames)}

----------------------------------------------------------------------------
(* Helpers on catalogs and agents *)

\* Index of the compartment called name in a catalog, 0 when there is none.
StateIndex(states, name) ==
    LET hits == {i \in 1..Len(states) : states[i].name = name}
    IN  IF hits = {} THEN 0 ELSE CHOOSE i \in hits : TRUE

\* Agent.getStateKey
GetStateKey(agent) == agent.states[Len(agent.states)][2]

\* Agent.getState
GetState(s, agent) ==
    LET cat == s.clusters[agent.cluster].states
    IN  cat[StateIndex(cat, GetStateKey(agent))]

\* `this.getState() === undefined`: the agent has a history whose last entry
\* names no compartment of the catalog of its cluster.
NoState(s, agent) ==
    /\ agent.states # << >>
    /\ StateIndex(s.clusters[agent.cluster].states, GetStateKey(agent)) = 0

\* Agent.getInfectiousness
GetInfectiousness(s, agent) == GetState(s, agent).infectiousness

\* The outcomes of one trial `Math.random() < risk`.
Bernoulli(risk) == {b \in BOOLEAN : IF b THEN risk > 0 ELSE risk < ProbOne}

DistanceSquared(x1, x2, y1, y2) == (x1 - x2) * (x1 - x2) + (y1 - y2) * (y1 - y2)

DetectCollision(s, a, b) ==
    LET rr == (s.config.agentRadius + s.config.agentRadius) *
              (s.config.agentRadius + s.config.agentRadius)
    IN  \/ DistanceSquared(a.x, b.x, a.y, b.y) < rr
        \/ DistanceSquared(a.x + a.dx, b.x + b.dx, a.y + a.dy, b.y + b.dy) < rr

\* makeInfection that overwrites the current entry of the history.
MakeInfectionOverwrite(s, to, risk) ==
    { IF b THEN [s EXCEPT !.agents[to].states =
                              [@ EXCEPT ![Len(@)] =
                                  <<s.iteration, "INFECTED_EXPOSED">>],
                          !.counters["total_simulation_infections"] = @ + 1]
           ELSE s : b \in Bernoulli(risk) }

\* makeInfection that does not count the infection.
MakeInfectionUncounted(s, to, risk) ==
    { IF b THEN [s EXCEPT !.agents[to].states =
                              Append(@, <<s.iteration, "INFECTED_EXPOSED">>)]
           ELSE s : b \in Bernoulli(risk) }

\* makeInfection(from_agent, to_agent, risk); to is the index of to_agent.
MakeInfection(s, to, risk) ==
    { IF b THEN [s EXCEPT !.agents[to].states =
                              Append(@, <<s.iteration, "INFECTED_EXPOSED">>),
                          !.counters["total_simulation_infections"] = @ + 1]
           ELSE s : b \in Bernoulli(risk) }

\* infectAgent that does not test the compartment of the receiving agent.
InfectAgentAnyState(s, i, j) ==
    LET this_infectiousness == GetInfectiousness(s, s.agents[i])
        agent_infectiousness == GetInfectiousness(s, s.agents[j])
    IN  IF agent_infectiousness > 0
          THEN MakeInfection(s, i, agent_infectiousness)
        ELSE IF this_infectiousness > 0
          THEN MakeInfection(s, j, this_infectiousness)
        ELSE {s}

\* infectAgent that passes the two agents to makeInfection the wrong way
\* round.
InfectAgentReversed(s, i, j) ==
    LET this_infectiousness == GetInfectiousness(s, s.agents[i])
        agent_infectiousness == GetInfectiousness(s, s.agents[j])
    IN  IF GetStateKey(s.agents[i]) = "SUSCEPTIBLE" /\ agent_infectiousness > 0
          THEN MakeInfection(s, j, agent_infectiousness)
        ELSE IF GetStateKey(s.agents[j]) = "SUSCEPTIBLE" /\ this_infectiousness > 0
          THEN MakeInfection(s, i, this_infectiousness)
        ELSE {s}

\* Agent.infectAgent: this is agent index i, the other agent index j.
\* getInfectiousness() of an agent with an empty history throws, and so
\* does that of an agent whose compartment is not in the catalog.
InfectAgent(s, i, j) ==
    LET this_infectiousness == GetInfectiousness(s, s.agents[i])
        agent_infectiousness == GetInfectiousness(s, s.agents[j])
    IN  IF s.agents[i].states = << >> \/ s.agents[j].states = << >>
          THEN {[s EXCEPT !.thrown = TypeError]}
        ELSE IF NoState(s, s.agents[i]) \/ NoState(s, s.agents[j])
          THEN {[s EXCEPT !.thrown = TypeError]}
        ELSE IF GetStateKey(s.agents[i]) = "SUSCEPTIBLE" /\ agent_infectiousness > 0
          THEN MakeInfection(s, i, agent_infectiousness)
        ELSE IF GetStateKey(s.agents[j]) = "SUSCEPTIBLE" /\ this_infectiousness > 0
          THEN MakeInfection(s, j, this_infectiousness)
        ELSE {s}

\* The body of the loop of Agent.detectInfections for the pair (i, j).
DetectOne(s, i, j) ==
    LET a == s.agents[i]
        b == s.agents[j]
    IN  IF a.id # b.id /\ DetectCollision(s, a, b)
          THEN LET swapped ==
                     IF s.config.elasticCollisions /\ a.id < b.id
                       THEN [s EXCEPT !.agents[i].dx = b.dx, !.agents[i].dy = b.dy,
                                      !.agents[j].dx = a.dx, !.agents[j].dy = a.dy,
                                      !.swaps = Append(@, <<a.id, b.id>>)]
                       ELSE s
               IN  InfectAgent(swapped, i, j)
          ELSE {s}

\* Agent.detectInfections: the scan of sim.agents from index j on.
RECURSIVE DetectInfections(_, _, _)
DetectInfections(s, i, j) ==
    IF j > Len(s.agents) \/ s.thrown # NoError THEN {s}
    ELSE UNION { DetectInfections(s2, i, j + 1) : s2 \in DetectOne(s, i, j) }

\* Agent.correctPosition without its assignments.
CorrectPositionNone(s, a) == a

\* Agent.correctPosition
CorrectPosition(s, a) ==
    LET c == s.clusters[a.cluster]
        r == s.config.agentRadius
        nx == IF a.x - r < c.left THEN c.left + r
              ELSE IF a.x + r > c.right THEN c.right - r ELSE a.x
        ny == IF a.y - r < c.top THEN c.top + r
              ELSE IF a.y + r > c.bottom THEN c.bottom - r ELSE a.y
    IN  [a EXCEPT !.x = nx, !.y = ny]

\* Agent.setDirection with the drawn index d (1..8).
SetDirection(s, a, d) ==
    [a EXCEPT !.dx = DIRECTION[d][1] * s.config.agentSpeed,
              !.dy = DIRECTION[d][2] * s.config.agentSpeed]

\* Agent.move for the agent at index i.  `this.movement_randomness` is never
\* assigned (the constructor sets movementRandomness), so the comparison
\* `Math.random() < undefined` is false and the direction is kept.
Move(s, i) ==
    LET a == s.agents[i]
        c == s.clusters[a.cluster]
        r == s.config.agentRadius
    IN  IF GetStateKey(a) = "DEAD"
          THEN {[s EXCEPT !.agents[i].x = -1000, !.agents[i].y = -1000]}
        ELSE
          LET dx1 == IF a.x + a.dx >= c.right - r \/ a.x + a.dx <= c.left + r
                       THEN -a.dx ELSE a.dx
              dy1 == IF a.y + a.dy >= c.bottom - r \/ a.y + a.dy <= c.top + r
                       THEN -a.dy ELSE a.dy
              s1 == [s EXCEPT !.agents[i].dx = dx1, !.agents[i].dy = dy1]
          IN  { LET b == s2.agents[i]
                IN  IF s2.thrown # NoError THEN s2
                    ELSE [s2 EXCEPT !.agents[i] =
                            CorrectPosition(s2, [b EXCEPT !.x = b.x + b.dx,
                                                          !.y = b.y + b.dy])]
                : s2 \in DetectInfections(s1, i, 1) }

----------------------------------------------------------------------------
(* Events *)

\* The inner loop of eventAdvanceAgents pushing the number of the iteration
\* that follows.
RECURSIVE TryTransitionsLate(_, _, _, _)
TryTransitionsLate(hist, edges, j, it) ==
    IF j > Len(edges) THEN {hist}
    ELSE UNION { IF b THEN {Append(hist, <<it + 1, edges[j].to>>)}
                      ELSE TryTransitionsLate(hist, edges, j + 1, it)
                 : b \in Bernoulli(edges[j].prob) }

\* The inner loop of eventAdvanceAgents: the edges of one compartment, from
\* edge j on, tried in insertion order; the first success is pushed.
RECURSIVE TryTransitions(_, _, _, _)
TryTransitions(hist, edges, j, it) ==
    IF j > Len(edges) THEN {hist}
    ELSE UNION { IF b THEN {Append(hist, <<it, edges[j].to>>)}
                      ELSE TryTransitions(hist, edges, j + 1, it)
                 : b \in Bernoulli(edges[j].prob) }

\* The loop of eventAdvanceAgents that ends with the first push.
RECURSIVE AdvanceAgentOnce(_, _, _, _)
AdvanceAgentOnce(hist, states, k, it) ==
    IF k > Len(states) THEN {hist}
    ELSE IF hist[Len(hist)][2] = states[k].name
      THEN TryTransitions(hist, states[k].nextStateProb, 1, it)
      ELSE AdvanceAgentOnce(hist, states, k + 1, it)

\* The loop of eventAdvanceAgents over the catalog of the agent's cluster,
\* from compartment k on: a compartment is handled when it is the agent's
\* current compartment at the moment the loop reaches it.
RECURSIVE AdvanceAgent(_, _, _, _)
AdvanceAgent(hist, states, k, it) ==
    IF k > Len(states) THEN {hist}
    ELSE IF hist[Len(hist)][2] = states[k].name
      THEN UNION { AdvanceAgent(h, states, k + 1, it)
                   : h \in TryTransitions(hist, states[k].nextStateProb, 1, it) }
      ELSE AdvanceAgent(hist, states, k + 1, it)

RECURSIVE AdvanceAgentsFrom(_, _)
AdvanceAgentsFrom(s, i) ==
    IF i > Len(s.agents) THEN {s}
    ELSE IF s.agents[i].states = << >> /\
            s.clusters[s.agents[i].cluster].states # << >>
      THEN {[s EXCEPT !.thrown = TypeError]}
    ELSE UNION { AdvanceAgentsFrom([s EXCEPT !.agents[i].states = h], i + 1)
                 : h \in AdvanceAgent(s.agents[i].states,
                                      s.clusters[s.agents[i].cluster].states,
                                      1, s.iteration) }

eventAdvanceAgents(s) == AdvanceAgentsFrom(s, 1)

RECURSIVE MoveAgentsFrom(_, _)
MoveAgentsFrom(s, i) ==
    IF i > Len(s.agents) \/ s.thrown # NoError THEN {s}
    ELSE IF s.agents[i].states = << >>
      THEN {[s EXCEPT !.thrown = TypeError]}
    ELSE IF GetStateKey(s.agents[i]) # "DEAD"
      THEN UNION { MoveAgentsFrom(s2, i + 1) : s2 \in Move(s, i) }
      ELSE MoveAgentsFrom(s, i + 1)

eventMoveAgents(s) == MoveAgentsFrom(s, 1)

\* key.substr(0, 6) === "total_"
IsTotalKey(key) ==
    key \in {"total_initial_infections", "total_simulation_infections"}

\* The second loop of eventCalcResults, from agent i on, with the counters
\* cnt so far; getStateKey() of an agent with an empty history throws, and
\* so does `agent.cluster.states[state].infected` for a compartment that is
\* not in the catalog.
RECURSIVE CountAgentsFrom(_, _, _)
CountAgentsFrom(s, cnt, i) ==
    IF i > Len(s.agents) THEN [s EXCEPT !.counters = cnt]
    ELSE IF s.agents[i].states = << >>
      THEN [s EXCEPT !.counters = cnt, !.thrown = TypeError]
    ELSE IF NoState(s, s.agents[i])
      THEN [s EXCEPT !.counters =
                         IF GetStateKey(s.agents[i]) \in CounterKeys
                           THEN [cnt EXCEPT ![GetStateKey(s.agents[i])] = @ + 1]
                           ELSE cnt,
                     !.thrown = TypeError]
    ELSE LET st == GetStateKey(s.agents[i])
             c1 == IF st \in CounterKeys THEN [cnt EXCEPT ![st] = @ + 1] ELSE cnt
             c2 == IF GetState(s, s.agents[i]).infected
                     THEN [c1 EXCEPT !["infections"] = @ + 1] ELSE c1
             c3 == IF st # "DEAD" THEN [c2 EXCEPT !["alive"] = @ + 1] ELSE c2
         IN  CountAgentsFrom(s, c3, i + 1)

\* eventCalcResults without the loop that resets the counters.
eventCalcResultsNoReset(s) == {CountAgentsFrom(s, s.counters, 1)}

eventCalcResults(s) ==
    LET reset == [key \in CounterKeys |->
                    IF IsTotalKey(key) THEN s.counters[key] ELSE 0]
    IN  {CountAgentsFrom(s, reset, 1)}

eventRecordResult(s) ==
    LET first == IF s.eventPhase = DURING THEN <<s.iteration>>
                 ELSE IF s.eventPhase = BEFORE THEN <<MarkerS>>
                 ELSE IF s.eventPhase = AFTER THEN <<MarkerE>>
                 ELSE << >>
        result == first \o [i \in 1..Len(CounterNames) |-> s.counters[CounterNames[i]]]
    IN  {[s EXCEPT !.results = Append(@, result)]}

\* event(this) for one entry of an event list.
RunEvent(s, event) ==
    CASE event = "eventAdvanceAgents" -> eventAdvanceAgents(s)
      [] event = "eventMoveAgents" -> eventMoveAgents(s)
      [] event = "eventCalcResults" -> eventCalcResults(s)
      [] event = "eventRecordResult" -> eventRecordResult(s)

\* Simulation.runEvents, from entry k of the list on.
RECURSIVE RunEvents(_, _, _)
RunEvents(s, events, k) ==
    IF k > Len(events) \/ s.thrown # NoError THEN {s}
    ELSE UNION { RunEvents(s2, events, k + 1) : s2 \in RunEvent(s, events[k]) }

\* `for (let cluster of this.clusters) this.runEvents(cluster.<list>)`,
\* from cluster c on; list is "beforeEvents", "duringEvents" or "afterEvents".
RECURSIVE RunClusterEvents(_, _, _)
RunClusterEvents(s, list, c) ==
    IF c > Len(s.clusters) \/ s.thrown # NoError THEN {s}
    ELSE UNION { RunClusterEvents(s2, list, c + 1)
                 : s2 \in RunEvents(s, s.clusters[c][list], 1) }

----------------------------------------------------------------------------
(* Catalog setters of Simulation.  c is the index of the cluster argument;  *)
(* an operation that has thrown is not continued (s.thrown # NoError).      *)

\* A write through cluster.states of the cluster at index c that leaves the
\* catalog cat: every cluster that holds the same object sees it, and so does
\* SimulationStates when that is the object.
RECURSIVE WriteCatalogFrom(_, _, _, _)
WriteCatalogFrom(s, ref, cat, d) ==
    IF d > Len(s.clusters) THEN s
    ELSE WriteCatalogFrom(IF s.clusters[d].statesRef = ref
                            THEN [s EXCEPT !.clusters[d].states = cat]
                            ELSE s,
                          ref, cat, d + 1)

WriteCatalog(s, c, cat) ==
    LET ref == s.clusters[c].statesRef
    IN  WriteCatalogFrom(
            [s EXCEPT !.env.template = IF ref = TemplateRef THEN cat ELSE @],
            ref, cat, 1)

\* `state in cluster.states`
HasState(s, c, name) ==
    \E k \in 1..Len(s.clusters[c].states) : s.clusters[c].states[k].name = name

\* Simulation.setClusterInitialRatio(cluster, name, val)
setClusterInitialRatio(s, c, name, val) ==
    IF HasState(s, c, name)
      THEN WriteCatalog(s, c,
               [s.clusters[c].states
                   EXCEPT ![StateIndex(s.clusters[c].states, name)]
                              .initialRatio = val])
      ELSE [s EXCEPT !.thrown = UnknownState]

\* Simulation.setInitialRatio(name, val)
setInitialRatio(s, name, val) == setClusterInitialRatio(s, 1, name, val)

\* The loops of setInitialRatios(arr), from cluster c and entry k of arr on.
RECURSIVE SetInitialRatiosFrom(_, _, _, _)
SetInitialRatiosFrom(s, arr, c, k) ==
    IF c > Len(s.clusters) \/ s.thrown # NoError THEN s
    ELSE IF k > Len(arr) THEN SetInitialRatiosFrom(s, arr, c + 1, 1)
    ELSE SetInitialRatiosFrom(
             setClusterInitialRatio(s, c, arr[k][1], arr[k][2]), arr, c, k + 1)

\* Simulation.setInitialRatios(arr)
setInitialRatios(s, arr) == SetInitialRatiosFrom(s, arr, 1, 1)

\* Simulation.clearClusterInitialRatio(cluster, name)
clearClusterInitialRatio(s, c, name) == setClusterInitialRatio(s, c, name, 0)

\* Simulation.ClearInitialRatio(name)
ClearInitialRatio(s, name) == clearClusterInitialRatio(s, 1, name)

\* The loops of clearAllInitialRatios, from cluster c and compartment k on.
RECURSIVE ClearAllInitialRatiosFrom(_, _, _)
ClearAllInitialRatiosFrom(s, c, k) ==
    IF c > Len(s.clusters) \/ s.thrown # NoError THEN s
    ELSE IF k > Len(s.clusters[c].states)
      THEN ClearAllInitialRatiosFrom(s, c + 1, 1)
    ELSE ClearAllInitialRatiosFrom(
             clearClusterInitialRatio(s, c, s.clusters[c].states[k].name),
             c, k + 1)

\* Simulation.clearAllInitialRatios()
clearAllInitialRatios(s) == ClearAllInitialRatiosFrom(s, 1, 1)

\* Simulation.setClusterStateInfectiousness(cluster, name, val)
setClusterStateInfectiousness(s, c, name, val) ==
    IF HasState(s, c, name)
      THEN WriteCatalog(s, c,
               [s.clusters[c].states
                   EXCEPT ![StateIndex(s.clusters[c].states, name)]
                              .infectiousness = val])
      ELSE [s EXCEPT !.thrown = UnknownState]

\* Simulation.setInfectiousness(name, val)
setInfectiousness(s, name, val) == setClusterStateInfectiousness(s, 1, name, val)

\* Simulation.setClusterInfectiousnesses(cluster, arr): the body of its loop
\* calls this.setClusterInfectiousness, which the class does not define, so
\* the first entry of arr ends the call with a TypeError.
setClusterInfectiousnesses(s, c, arr) ==
    IF Len(arr) = 0 THEN s ELSE [s EXCEPT !.thrown = TypeError]

\* The loop of setInfectiousnesses(arr), from cluster c on.
RECURSIVE SetInfectiousnessesFrom(_, _, _)
SetInfectiousnessesFrom(s, arr, c) ==
    IF c > Len(s.clusters) \/ s.thrown # NoError THEN s
    ELSE SetInfectiousnessesFrom(setClusterInfectiousnesses(s, c, arr), arr, c + 1)

\* Simulation.setInfectiousnesses(arr)
setInfectiousnesses(s, arr) == SetInfectiousnessesFrom(s, arr, 1)

\* Simulation.clearClusterStateInfectiousness(cluster, name)
clearClusterStateInfectiousness(s, c, name) ==
    setClusterStateInfectiousness(s, c, name, 0)

\* The loop of clearClusterInfectiousness(cluster), from compartment k on.
RECURSIVE ClearClusterInfectiousnessFrom(_, _, _)
ClearClusterInfectiousnessFrom(s, c, k) ==
    IF k > Len(s.clusters[c].states) \/ s.thrown # NoError THEN s
    ELSE ClearClusterInfectiousnessFrom(
             clearClusterStateInfectiousness(s, c, s.clusters[c].states[k].name),
             c, k + 1)

\* Simulation.clearClusterInfectiousness(cluster)
clearClusterInfectiousness(s, c) == ClearClusterInfectiousnessFrom(s, c, 1)

\* The loop of clearAllInfectiousness, from cluster c on.
RECURSIVE ClearAllInfectiousnessFrom(_, _)
ClearAllInfectiousnessFrom(s, c) ==
    IF c > Len(s.clusters) \/ s.thrown # NoError THEN s
    ELSE ClearAllInfectiousnessFrom(clearClusterInfectiousness(s, c), c + 1)

\* Simulation.clearAllInfectiousness()
clearAllInfectiousness(s) == ClearAllInfectiousnessFrom(s, 1)

\* `nextStateProb[to_state] = val`: the key is overwritten in place, or
\* inserted last.
PutTransition(edges, to, val) ==
    IF \E j \in 1..Len(edges) : edges[j].to = to
      THEN [j \in 1..Len(edges) |->
              IF edges[j].to = to THEN Transition(to, val) ELSE edges[j]]
      ELSE Append(edges, Transition(to, val))

\* Simulation.setClusterTransition(cluster, from_state, to_state, val).  Its
\* two tests read `!from_state in cluster.states`, that is
\* `(!from_state) in cluster.states`: the key "false" (or "true" for an
\* empty name) is looked up, so neither throws unless a compartment has
\* that name.  The assignment throws a TypeError when cluster.states has no
\* from_state.
setClusterTransition(s, c, from_state, to_state, val) ==
    LET negated(key) == IF key = "" THEN "true" ELSE "false"
    IN  IF HasState(s, c, negated(from_state))
          THEN [s EXCEPT !.thrown = UnknownState]
        ELSE IF HasState(s, c, negated(to_state))
          THEN [s EXCEPT !.thrown = UnknownState]
        ELSE IF ~HasState(s, c, from_state)
          THEN [s EXCEPT !.thrown = TypeError]
        ELSE WriteCatalog(s, c,
                 [s.clusters[c].states
                     EXCEPT ![StateIndex(s.clusters[c].states, from_state)]
                                .nextStateProb = PutTransition(@, to_state, val)])

\* The loop of setClusterTransitions(cluster, arr), from entry k on.
RECURSIVE SetClusterTransitionsFrom(_, _, _, _)
SetClusterTransitionsFrom(s, c, arr, k) ==
    IF k > Len(arr) \/ s.thrown # NoError THEN s
    ELSE SetClusterTransitionsFrom(
             setClusterTransition(s, c, arr[k][1], arr[k][2], arr[k][3]),
             c, arr, k + 1)

\* Simulation.setClusterTransitions(cluster, arr)
setClusterTransitions(s, c, arr) == SetClusterTransitionsFrom(s, c, arr, 1)

\* The loop of setTransitions(arr), from cluster c on.
RECURSIVE SetTransitionsFrom(_, _, _)
SetTransitionsFrom(s, arr, c) ==
    IF c > Len(s.clusters) \/ s.thrown # NoError THEN s
    ELSE SetTransitionsFrom(setClusterTransitions(s, c, arr), arr, c + 1)

\* Simulation.setTransitions(arr)
setTransitions(s, arr) == SetTransitionsFrom(s, arr, 1)

\* Simulation.clearClusterStateTransitions(cluster, name)
clearClusterStateTransitions(s, c, name) ==
    IF HasState(s, c, name)
      THEN WriteCatalog(s, c,
               [s.clusters[c].states
                   EXCEPT ![StateIndex(s.clusters[c].states, name)]
                              .nextStateProb = << >>])
      ELSE [s EXCEPT !.thrown = TypeError]

\* The loop of clearAllClusterTransitions(cluster), from compartment k on.
RECURSIVE ClearAllClusterTransitionsFrom(_, _, _)
ClearAllClusterTransitionsFrom(s, c, k) ==
    IF k > Len(s.clusters[c].states) \/ s.thrown # NoError THEN s
    ELSE ClearAllClusterTransitionsFrom(
             clearClusterStateTransitions(s, c, s.clusters[c].states[k].name),
             c, k + 1)

\* Simulation.clearAllClusterTransitions(cluster)
clearAllClusterTransitions(s, c) == ClearAllClusterTransitionsFrom(s, c, 1)

\* The loop of clearAllTransitions, from cluster c on.
RECURSIVE ClearAllTransitionsFrom(_, _)
ClearAllTransitionsFrom(s, c) ==
    IF c > Len(s.clusters) \/ s.thrown # NoError THEN s
    ELSE ClearAllTransitionsFrom(clearAllClusterTransitions(s, c), c + 1)

\* Simulation.clearAllTransitions()
clearAllTransitions(s) == ClearAllTransitionsFrom(s, 1)

\* Simulation.clear()
clear(s) ==
    LET s1 == clearAllTransitions(s)
        s2 == IF s1.thrown # NoError THEN s1 ELSE clearAllInfectiousness(s1)
    IN  IF s2.thrown # NoError THEN s2 ELSE clearAllInitialRatios(s2)

----------------------------------------------------------------------------
(* Lifecycle *)

\* setInterval returns a handle distinct from every active one.
NewTimer(s) == CHOOSE t \in 1..(Cardinality(s.timers) + 1) : t \notin s.timers

beforeIteration(s) ==
    RunClusterEvents([s EXCEPT !.eventPhase = BEFORE,
                               !.beforeRuns = @ + 1], "beforeEvents", 1)

afterIteration(s) ==
    RunClusterEvents([s EXCEPT !.eventPhase = AFTER,
                               !.afterRuns = @ + 1], "afterEvents", 1)

\* pause() that forgets clearInterval.
pauseKeepsTimer(s) ==
    IF s.state # PAUSED
      THEN [s EXCEPT !.state = PAUSED, !.timer = NoTimer]
      ELSE s

\* pause() that clears the timer and leaves the state as it is.
pauseKeepsState(s) ==
    IF s.state # PAUSED
      THEN [s EXCEPT !.timers = @ \ {s.timer}, !.timer = NoTimer]
      ELSE s

pause(s) ==
    IF s.state # PAUSED
      THEN [s EXCEPT !.state = PAUSED,
                     !.timers = @ \ {s.timer},
                     !.timer = NoTimer]
      ELSE s

stop(s) == afterIteration(pause(s))

\* oneIteration() that halts only once the counter has passed maxIterations.
oneIterationLateHalt(s) ==
    UNION { LET s3 == [s2 EXCEPT !.iteration = @ + 1]
            IN  IF s3.config.maxIterations > 0 /\
                   s3.iteration > s3.config.maxIterations
                  THEN stop(s3) ELSE {s3}
            : s2 \in RunClusterEvents([s EXCEPT !.eventPhase = DURING],
                                      "duringEvents", 1) }

oneIteration(s) ==
    UNION { LET s3 == [s2 EXCEPT !.iteration = @ + 1]
            IN  IF s2.thrown # NoError THEN {s2}
                ELSE IF s3.config.maxIterations > 0 /\
                        s3.iteration % s3.config.maxIterations = 0
                  THEN stop(s3) ELSE {s3}
            : s2 \in RunClusterEvents([s EXCEPT !.eventPhase = DURING],
                                      "duringEvents", 1) }

\* step() whose first call ticks twice.
stepTwice(s) ==
    IF s.state # PLAYING
      THEN IF s.iteration = 0
             THEN UNION { UNION { oneIteration(s2) : s2 \in oneIteration(s1) }
                          : s1 \in beforeIteration(s) }
             ELSE oneIteration(s)
      ELSE {s}

step(s) ==
    IF s.state # PLAYING
      THEN UNION { oneIteration(s1)
                   : s1 \in IF s.iteration = 0 THEN beforeIteration(s) ELSE {s} }
      ELSE {s}

\* play() without the test of the state.
playUnguarded(s) ==
    { [s2 EXCEPT !.timer = NewTimer(s2), !.timers = @ \cup {NewTimer(s2)}]
      : s2 \in LET s1 == [s EXCEPT !.state = PLAYING]
               IN  IF s1.iteration = 0 THEN beforeIteration(s1) ELSE {s1} }

play(s) ==
    IF s.state # PLAYING
      THEN { [s2 EXCEPT !.timer = NewTimer(s2), !.timers = @ \cup {NewTimer(s2)}]
             : s2 \in LET s1 == [s EXCEPT !.state = PLAYING]
                      IN  IF s1.iteration = 0 THEN beforeIteration(s1) ELSE {s1} }
      ELSE {s}

----------------------------------------------------------------------------
(* Construction and initialization *)

\* x || y for numbers: the default y replaces a missing or zero x.
OrElse(x, y) == IF x = 0 THEN y ELSE x

DefaultDuringEvents ==
    << "eventAdvanceAgents", "eventMoveAgents", "eventCalcResults",
       "eventRecordResult" >>

DefaultAfterEvents == << "eventCalcResults", "eventRecordResult" >>

\* Simulation.processOptions: the simulation built from the options.  Every
\* cluster of options.clusters is a copy of the default cluster, event lists
\* included, overridden by the keys the option gives.
processOptions(options) ==
    LET width == OrElse(options.width, 320)
        height == OrElse(options.height, 320)
        cluster0 == [left |-> 0, top |-> 0, right |-> width, bottom |-> height,
                     numAgents |-> OrElse(options.numAgents, 0),
                     states |-> options.simulationStates,
                     statesRef |-> OptionsRef,
                     beforeEvents |-> << >>,
                     duringEvents |-> DefaultDuringEvents,
                     afterEvents |-> DefaultAfterEvents]
        override(c, o) == [c EXCEPT !.numAgents = o.numAgents, !.left = o.left,
                                    !.top = o.top, !.right = o.right,
                                    !.bottom = o.bottom]
    IN  [config |-> [width |-> width, height |-> height,
                     interval |-> OrElse(options.interval, 0),
                     agentRadius |-> OrElse(options.agentRadius, 3),
                     movementRandomnessMean |->
                         OrElse(options.movementRandomnessMean, 0),
                     elasticCollisions |-> (options.elasticCollisions \/ TRUE),
                     agentSpeed |-> 1,
                     maxIterations |-> OrElse(options.maxIterations, 0)],
         clusters |-> IF Len(options.clusters) = 0 THEN << cluster0 >>
                      ELSE [i \in 1..Len(options.clusters) |->
                              override(IF i = 1 THEN cluster0
                                       ELSE deepCopyCluster(cluster0, i),
                                       options.clusters[i])],
         state |-> PAUSED,
         timer |-> NoTimer,
         timers |-> {},
         agentCounter |-> 0,
         agents |-> << >>,
         counters |-> [key \in CounterKeys |-> 0],
         eventPhase |-> BEFORE,
         results |-> << >>,
         iteration |-> 0,
         beforeRuns |-> 0,
         afterRuns |-> 0,
         env |-> [directions |-> options.directions,
                  template |-> SimulationStates],
         thrown |-> NoError,
         swaps |-> << >>]

\* The values `Math.random() * (hi - lo) + lo` is drawn from: the grid points
\* of [lo, hi).
PositionDraws(lo, hi) == lo..(hi - 1)

\* The values `Math.floor(Math.random() * 8.0)` is drawn from, as indices of
\* DIRECTION: the directions the environment of the run allows.
DirectionDraws(s) == s.env.directions \cap (1..Len(DIRECTION))

\* new Agent(sim, cluster) for the cluster at index c: the agents it can build.
NewAgent(s, c) ==
    LET cl == s.clusters[c]
    IN  { SetDirection(s,
             CorrectPosition(s, [id |-> s.agentCounter, cluster |-> c,
                                 x |-> px, y |-> py, dx |-> 0, dy |-> 0,
                                 states |-> << >>]), d)
          : px \in PositionDraws(cl.left, cl.right),
            py \in PositionDraws(cl.top, cl.bottom),
            d \in DirectionDraws(s) }

\* Simulation.generateAgents(numAgents, cluster)
RECURSIVE generateAgents(_, _, _)
generateAgents(s, numAgents, c) ==
    IF numAgents <= 0 THEN {s}
    ELSE UNION { generateAgents([s EXCEPT !.agents = Append(@, a),
                                          !.agentCounter = @ + 1],
                                numAgents - 1, c)
                 : a \in NewAgent(s, c) }

\* Simulation.createAgents, from cluster c on (the caller empties sim.agents).
RECURSIVE CreateAgentsFrom(_, _)
CreateAgentsFrom(s, c) ==
    IF c > Len(s.clusters) THEN {s}
    ELSE UNION { CreateAgentsFrom(s2, c + 1)
                 : s2 \in generateAgents(s, s.clusters[c].numAgents, c) }

createAgents(s) == CreateAgentsFrom([s EXCEPT !.agents = << >>], 1)

RECURSIVE SumRatios(_, _)
SumRatios(states, k) ==
    IF k = 0 THEN 0 ELSE SumRatios(states, k - 1) + states[k].initialRatio

\* calcInitialRatios that stores each ratio instead of the running sum.
calcInitialRatiosNotCumulative(s) ==
    [s EXCEPT !.clusters =
        [c \in 1..Len(s.clusters) |->
            [s.clusters[c] EXCEPT !.states =
                [k \in 1..Len(s.clusters[c].states) |->
                    [s.clusters[c].states[k] EXCEPT !.initial_proportion =
                        [num |-> s.clusters[c].states[k].initialRatio,
                         den |-> SumRatios(s.clusters[c].states,
                                           Len(s.clusters[c].states))]]]]]]

\* Simulation.calcInitialRatios: initial_proportion is the cumulative ratio
\* over the total, kept as the fraction num / den (den = 0: NaN).
calcInitialRatios(s) ==
    [s EXCEPT !.clusters =
        [c \in 1..Len(s.clusters) |->
            [s.clusters[c] EXCEPT !.states =
                [k \in 1..Len(s.clusters[c].states) |->
                    [s.clusters[c].states[k] EXCEPT !.initial_proportion =
                        [num |-> SumRatios(s.clusters[c].states, k),
                         den |-> SumRatios(s.clusters[c].states,
                                           Len(s.clusters[c].states))]]]]]]

\* `r <= initial_proportion` for the draw r = k / den.
AtMostProportion(k, p) == p.den > 0 /\ k <= p.num

\* `r < initial_proportion` for the draw r = k / den.
LessThanProportion(k, p) == p.den > 0 /\ k < p.num

\* The loop body of calcInitialStates for agent i and the draw k.
InitialState(s, i, k) ==
    LET cat == s.clusters[s.agents[i].cluster].states
        hits == {n \in 1..Len(cat) : LessThanProportion(k, cat[n].initial_proportion)}
    IN  IF hits = {} THEN s
        ELSE LET n == CHOOSE n \in hits : \A m \in hits : n <= m
             IN  [s EXCEPT !.agents[i].states = Append(@, <<MarkerS, cat[n].name>>),
                           !.counters["total_initial_infections"] =
                               IF cat[n].infected THEN @ + 1 ELSE @]

\* The draws of `Math.random()` that calcInitialStates can tell apart for
\* agent i: k / den for k in 0 .. den - 1.
RatioDraws(s, i) ==
    LET cat == s.clusters[s.agents[i].cluster].states
        den == cat[Len(cat)].initial_proportion.den
    IN  IF den <= 0 THEN {0} ELSE 0..(den - 1)

\* Simulation.calcInitialStates(from, to), indices from + 1 .. to.
RECURSIVE calcInitialStates(_, _, _)
calcInitialStates(s, from, to) ==
    IF from >= to THEN {s}
    ELSE UNION { calcInitialStates(InitialState(s, from + 1, k), from + 1, to)
                 : k \in RatioDraws(s, from + 1) }

\* Simulation.initialize
initialize(s) ==
    UNION { UNION { eventCalcResults(s3)
                    : s3 \in calcInitialStates(calcInitialRatios(s2), 0,
                                               Len(s2.agents)) }
            : s2 \in createAgents(s) }

----------------------------------------------------------------------------
(* Slider handlers of the user interface (assignEvents, assignClusterEvents) *)

\* The "input" handler of the speed slider.
speedSlider(s, value) ==
    LET s1 == [s EXCEPT !.config.interval = value]
    IN  IF s1.state = PLAYING THEN play(pause(s1)) ELSE {s1}

\* removeAgents that gives the ids of the removed agents back to the counter.
removeAgentsReusingIds(s, n) ==
    [s EXCEPT !.agents = SubSeq(@, 1, IF n >= Len(@) THEN 0 ELSE Len(@) - n),
              !.agentCounter = IF n >= Len(s.agents) THEN @ - Len(s.agents)
                               ELSE @ - n]

\* Simulation.removeAgents(n)
removeAgents(s, n) ==
    [s EXCEPT !.agents = SubSeq(@, 1, IF n >= Len(@) THEN 0 ELSE Len(@) - n)]

\* The "input" handler of the agents slider of the cluster at index c.
agentsSlider(s, c, numAgents) ==
    LET resized ==
          IF numAgents > Len(s.agents)
            THEN UNION { calcInitialStates(calcInitialRatios(s2), Len(s.agents),
                                           numAgents)
                         : s2 \in generateAgents(s, numAgents - Len(s.agents), c) }
            ELSE {removeAgents(s, Len(s.agents) - numAgents)}
    IN  UNION { IF s1.state = PLAYING THEN play(pause(s1)) ELSE {s1}
                : s1 \in resized }

\* The loop `for (let a of sim.agents) a.correctPosition()`, from agent i on.
RECURSIVE CorrectPositionsFrom(_, _)
CorrectPositionsFrom(s, i) ==
    IF i > Len(s.agents) THEN s
    ELSE CorrectPositionsFrom(
             [s EXCEPT !.agents[i] = CorrectPosition(s, s.agents[i])], i + 1)

\* min(x, y)
Min(x, y) == IF x <= y THEN x ELSE y

\* The "input" handler of an area slider: prop = value / 100 scales every
\* cluster, then every agent of sim.agents is put back inside its cluster.
areaSlider(s, value) ==
    LET resized ==
          [s EXCEPT !.clusters =
              [c \in 1..Len(s.clusters) |->
                  [s.clusters[c] EXCEPT
                      !.right = Min(s.clusters[c].left +
                                      (value * s.config.width) \div 100,
                                    s.config.width),
                      !.bottom = Min(s.clusters[c].top +
                                       (value * s.config.height) \div 100,
                                     s.config.height)]]]
    IN  CorrectPositionsFrom(resized, 1)

----------------------------------------------------------------------------
(* Configurations explored *)

\* A catalog passed as options.simulationStates.
ToyStates ==
    << Compartment("SUSCEPTIBLE", FALSE, 0, 1, << >>),
       Compartment("INFECTED_EXPOSED", TRUE, 0, 0,
                   << Transition("INFECTED_SYMPTOMATIC", 3300) >>),
       Compartment("INFECTED_SYMPTOMATIC", TRUE, 5000, 1,
                   << Transition("INFECTED_ICU", 1000) >>),
       Compartment("INFECTED_ICU", TRUE, 5000, 0,
                   << Transition("DEAD", 5000),
                      Transition("RECOVERED", 1000) >>),
       Compartment("RECOVERED", FALSE, 0, 0, << >>),
       Compartment("DEAD", FALSE, 0, 0, << >>) >>

ClusterOption(numAgents, left, top, right, bottom) ==
    [numAgents |-> numAgents, left |-> left, top |-> top, right |-> right,
     bottom |-> bottom]

\* options.clusters for the lifecycle: one agent in one cluster, or in the
\* first of two clusters, on the smallest rectangle an agent fits in.
ClusterOptions ==
    { << ClusterOption(1, 0, 0, 2, 2) >>,
      << ClusterOption(1, 0, 0, 2, 2), ClusterOption(0, 0, 0, 2, 2) >> }

\* options.clusters for the agents: one cluster of two agents, or two
\* clusters of one agent each, on a strip where agents can meet and part.
AgentClusterOptions ==
    { << ClusterOption(2, 0, 0, 4, 2) >>,
      << ClusterOption(1, 0, 0, 4, 2), ClusterOption(1, 0, 0, 4, 2) >> }

\* options.maxIterations: unbounded, or a halt every second iteration.
MaxIterationsOptions == {0, 2}

\* Indices of DIRECTION: [-1, 0] and [1, 0].
HorizontalDirections == {2, 7}

Options ==
    [width : {4}, height : {2}, numAgents : {0}, interval : {0},
     agentRadius : {1}, movementRandomnessMean : {0}, elasticCollisions : BOOLEAN,
     maxIterations : MaxIterationsOptions,
     simulationStates : {ToyStates},
     directions : {HorizontalDirections},
     clusters : ClusterOptions]

\* ToyStates with every agent drawn SUSCEPTIBLE.
SusceptibleStates ==
    [k \in 1..Len(ToyStates) |->
        IF ToyStates[k].name = "SUSCEPTIBLE" THEN ToyStates[k]
        ELSE [ToyStates[k] EXCEPT !.initialRatio = 0]]

UIOptions ==
    [width : {4}, height : {2}, numAgents : {0}, interval : {0},
     agentRadius : {1}, movementRandomnessMean : {0}, elasticCollisions : {TRUE},
     maxIterations : MaxIterationsOptions,
     simulationStates : {SusceptibleStates},
     directions : {HorizontalDirections},
     clusters : {<< ClusterOption(1, 0, 0, 2, 2) >>}]

AgentOptions ==
    [width : {4}, height : {2}, numAgents : {0}, interval : {0},
     agentRadius : {1}, movementRandomnessMean : {0}, elasticCollisions : BOOLEAN,
     maxIterations : {0},
     simulationStates : {ToyStates},
     directions : {HorizontalDirections},
     clusters : AgentClusterOptions]

\* Positions of the area slider (its range is 10..100) at which the
\* cluster sides stay on the grid: half and all of the maximum.
AreaValues == {50, 100}

\* One cluster of two agents with elastic collisions.
GeometryOptions ==
    [width : {4}, height : {2}, numAgents : {0}, interval : {0},
     agentRadius : {1}, movementRandomnessMean : {0}, elasticCollisions : {TRUE},
     maxIterations : {0},
     simulationStates : {ToyStates},
     directions : {HorizontalDirections},
     clusters : {<< ClusterOption(2, 0, 0, 4, 2) >>}]

\* Index of DIRECTION: [1, 0].
RightDirection == {7}

\* One cluster of two agents that all start moving to the right.
HistoryOptions ==
    [width : {4}, height : {2}, numAgents : {0}, interval : {0},
     agentRadius : {1}, movementRandomnessMean : {0}, elasticCollisions : {TRUE},
     maxIterations : {0},
     simulationStates : {ToyStates},
     directions : {RightDirection},
     clusters : {<< ClusterOption(2, 0, 0, 4, 2) >>}]

\* One agent in one cluster, or in the first of two clusters; an agent is
\* drawn SUSCEPTIBLE or INFECTED_SYMPTOMATIC.
PopulationOptions ==
    [width : {4}, height : {2}, numAgents : {0}, interval : {0},
     agentRadius : {1}, movementRandomnessMean : {0}, elasticCollisions : {TRUE},
     maxIterations : {0},
     simulationStates : {ToyStates},
     directions : {RightDirection},
     clusters : ClusterOptions]

\* The default catalog with the same initial ratio for every compartment, so
\* that an agent can be drawn into any of them.
EveryCompartmentStates ==
    [k \in 1..Len(SimulationStates) |->
        [SimulationStates[k] EXCEPT !.initialRatio = 1]]

\* The default catalog with the same initial ratio for SUSCEPTIBLE and for
\* the infectious compartments it draws agents into (INFECTED_ASYMPTOMATIC
\* and INFECTED_SYMPTOMATIC).
ContagionStates ==
    [k \in 1..Len(SimulationStates) |->
        [SimulationStates[k] EXCEPT !.initialRatio =
            IF @ > 0 /\ (SimulationStates[k].name = "SUSCEPTIBLE" \/
                         SimulationStates[k].infectiousness > 0)
              THEN 1 ELSE 0]]

\* One agent drawn into any compartment of the default catalog, in one
\* cluster or in the first of two; or two agents of one cluster, each drawn
\* SUSCEPTIBLE, INFECTED_ASYMPTOMATIC or INFECTED_SYMPTOMATIC.
ScenarioOptions ==
    [width : {2}, height : {2}, numAgents : {0}, interval : {0},
     agentRadius : {1}, movementRandomnessMean : {0}, elasticCollisions : {TRUE},
     maxIterations : {0},
     simulationStates : {EveryCompartmentStates},
     directions : {RightDirection},
     clusters : ClusterOptions]
    \cup
    [width : {2}, height : {2}, numAgents : {0}, interval : {0},
     agentRadius : {1}, movementRandomnessMean : {0}, elasticCollisions : {TRUE},
     maxIterations : {0},
     simulationStates : {ContagionStates},
     directions : {RightDirection},
     clusters : { << ClusterOption(2, 0, 0, 2, 2) >> }]

\* Two clusters of one agent each, on the smallest rectangle an agent fits
\* in.
CatalogOptions ==
    [width : {2}, height : {2}, numAgents : {0}, interval : {0},
     agentRadius : {1}, movementRandomnessMean : {0}, elasticCollisions : {TRUE},
     maxIterations : {0},
     simulationStates : {ToyStates},
     directions : {RightDirection},
     clusters : {<< ClusterOption(1, 0, 0, 2, 2), ClusterOption(1, 0, 0, 2, 2) >>}]

\* Compartment names passed to the setters: two of the catalog and one that
\* is not in it.
KnownNames == {"SUSCEPTIBLE", "INFECTED_SYMPTOMATIC"}
UnknownNames == {"UNKNOWN"}
SetterNames == KnownNames \cup UnknownNames

\* Values passed as initial ratio and as infectiousness or probability.
RatioValues == {0, 2}
ProbValues == {0, 5000}

\* The arrays with 1 .. MaxArrLen entries taken from the set entries.
Arrays(entries) == UNION { [1..n -> entries] : n \in 1..MaxArrLen }

RatioArrays == Arrays({<<name, val>> : name \in SetterNames, val \in RatioValues})
ProbArrays == Arrays({<<name, val>> : name \in SetterNames, val \in ProbValues})

\* [from_state, to_state, val] entries: a transition out of
\* INFECTED_SYMPTOMATIC or out of a name not in the catalog.
TransitionEntries ==
    {<<from, to, 5000>> : from \in {"INFECTED_SYMPTOMATIC"} \cup UnknownNames,
                          to \in {"DEAD"} \cup UnknownNames}
TransitionArrays == Arrays(TransitionEntries)

\* The names of the catalog operations, as recorded in op.
CatalogOps ==
    {"setClusterInitialRatio", "setInitialRatio", "setInitialRatios",
     "clearClusterInitialRatio", "ClearInitialRatio", "clearAllInitialRatios",
     "setClusterStateInfectiousness", "setInfectiousness",
     "setClusterInfectiousnesses", "setInfectiousnesses",
     "clearClusterStateInfectiousness", "clearClusterInfectiousness",
     "clearAllInfectiousness", "setClusterTransition", "setClusterTransitions",
     "setTransitions", "clearClusterStateTransitions",
     "clearAllClusterTransitions", "clearAllTransitions", "clear"}

----------------------------------------------------------------------------
(* State machine *)

Sim ==
    [config |-> config, clusters |-> clusters, agents |-> agents,
     agentCounter |-> agentCounter, state |-> state, timer |-> timer,
     timers |-> timers, iteration |-> iteration, eventPhase |-> eventPhase,
     counters |-> counters, results |-> results,
     beforeRuns |-> beforeRuns, afterRuns |-> afterRuns, env |-> env,
     thrown |-> NoError, swaps |-> << >>]

Install(s, name) ==
    /\ config' = s.config
    /\ clusters' = s.clusters
    /\ agents' = s.agents
    /\ agentCounter' = s.agentCounter
    /\ state' = s.state
    /\ timer' = s.timer
    /\ timers' = s.timers
    /\ iteration' = s.iteration
    /\ eventPhase' = s.eventPhase
    /\ counters' = s.counters
    /\ results' = s.results
    /\ beforeRuns' = s.beforeRuns
    /\ afterRuns' = s.afterRuns
    /\ env' = s.env
    /\ thrown' = s.thrown
    /\ swaps' = s.swaps
    /\ op' = name

\* The part of the state space that is explored.
Bounded(s) ==
    /\ s.iteration <= MaxIteration
    /\ s.afterRuns <= MaxAfterRuns
    /\ s.beforeRuns <= MaxBeforeRuns
    /\ s.agentCounter <= MaxAgentId

InitFrom(optionSet) ==
    \E options \in optionSet :
        LET s == processOptions(options)
        IN  /\ config = s.config
            /\ clusters = s.clusters
            /\ agents = s.agents
            /\ agentCounter = s.agentCounter
            /\ state = s.state
            /\ timer = s.timer
            /\ timers = s.timers
            /\ iteration = s.iteration
            /\ eventPhase = s.eventPhase
            /\ counters = s.counters
            /\ results = s.results
            /\ beforeRuns = s.beforeRuns
            /\ afterRuns = s.afterRuns
            /\ env = s.env
            /\ thrown = s.thrown
            /\ swaps = s.swaps
            /\ op = "new"

Init == InitFrom(Options)

RECURSIVE SumNumAgents(_, _)
SumNumAgents(cls, c) ==
    IF c = 0 THEN 0 ELSE SumNumAgents(cls, c - 1) + cls[c].numAgents

\* initialize() is called once, after construction and configuration.
Initialize ==
    /\ op \in {"new"} \cup CatalogOps
    /\ agentCounter + SumNumAgents(clusters, Len(clusters)) <= MaxAgentId
    /\ \E s2 \in initialize(Sim) : Bounded(s2) /\ Install(s2, "initialize")

\* A call of initialize() on a simulation that has already been operated on.
InitializeAgain ==
    /\ op \notin {"new"} \cup CatalogOps
    /\ agentCounter + SumNumAgents(clusters, Len(clusters)) <= MaxAgentId
    /\ \E s2 \in initialize(Sim) : Bounded(s2) /\ Install(s2, "initialize")

Step ==
    /\ state # PLAYING => iteration < MaxIteration
    /\ \E s2 \in step(Sim) : Bounded(s2) /\ Install(s2, "step")

Play ==
    \E s2 \in play(Sim) : Bounded(s2) /\ Install(s2, "play")

Pause ==
    Install(pause(Sim), "pause")

Stop ==
    \E s2 \in stop(Sim) : Bounded(s2) /\ Install(s2, "stop")

\* The callback of an active interval timer fires.
TimerTick ==
    \E t \in timers :
        /\ iteration < MaxIteration
        /\ \E s2 \in oneIteration(Sim) : Bounded(s2) /\ Install(s2, "tick")

SpeedSlider ==
    \E value \in Intervals :
        \E s2 \in speedSlider(Sim, value) : Bounded(s2) /\ Install(s2, "speed")

AgentsSlider ==
    \E c \in 1..Len(clusters), numAgents \in 0..MaxAgents :
        /\ numAgents > Len(agents) =>
               agentCounter + numAgents - Len(agents) <= MaxAgentId
        /\ \E s2 \in agentsSlider(Sim, c, numAgents) :
               Bounded(s2) /\ Install(s2, "agents")

AreaSlider ==
    \E value \in AreaValues :
        /\ (value * config.width) % 100 = 0
        /\ (value * config.height) % 100 = 0
        /\ Install(areaSlider(Sim, value), "area")

\* One catalog operation is applied to a newly constructed simulation.
Configuring == op = "new"

SetClusterInitialRatio ==
    /\ Configuring
    /\ \E c \in 1..Len(clusters), name \in SetterNames, val \in RatioValues :
           Install(setClusterInitialRatio(Sim, c, name, val),
                   "setClusterInitialRatio")

SetInitialRatio ==
    /\ Configuring
    /\ \E name \in SetterNames, val \in RatioValues :
           Install(setInitialRatio(Sim, name, val), "setInitialRatio")

SetInitialRatios ==
    /\ Configuring
    /\ \E arr \in RatioArrays :
           Install(setInitialRatios(Sim, arr), "setInitialRatios")

ClearClusterInitialRatio ==
    /\ Configuring
    /\ \E c \in 1..Len(clusters), name \in SetterNames :
           Install(clearClusterInitialRatio(Sim, c, name),
                   "clearClusterInitialRatio")

ClearInitialRatioOp ==
    /\ Configuring
    /\ \E name \in SetterNames :
           Install(ClearInitialRatio(Sim, name), "ClearInitialRatio")

ClearAllInitialRatios ==
    /\ Configuring
    /\ Install(clearAllInitialRatios(Sim), "clearAllInitialRatios")

SetClusterStateInfectiousness ==
    /\ Configuring
    /\ \E c \in 1..Len(clusters), name \in SetterNames, val \in ProbValues :
           Install(setClusterStateInfectiousness(Sim, c, name, val),
                   "setClusterStateInfectiousness")

SetInfectiousness ==
    /\ Configuring
    /\ \E name \in SetterNames, val \in ProbValues :
           Install(setInfectiousness(Sim, name, val), "setInfectiousness")

SetClusterInfectiousnesses ==
    /\ Configuring
    /\ \E c \in 1..Len(clusters), arr \in ProbArrays :
           Install(setClusterInfectiousnesses(Sim, c, arr),
                   "setClusterInfectiousnesses")

SetInfectiousnesses ==
    /\ Configuring
    /\ \E arr \in ProbArrays :
           Install(setInfectiousnesses(Sim, arr), "setInfectiousnesses")

ClearClusterStateInfectiousness ==
    /\ Configuring
    /\ \E c \in 1..Len(clusters), name \in SetterNames :
           Install(clearClusterStateInfectiousness(Sim, c, name),
                   "clearClusterStateInfectiousness")

ClearClusterInfectiousness ==
    /\ Configuring
    /\ \E c \in 1..Len(clusters) :
           Install(clearClusterInfectiousness(Sim, c),
                   "clearClusterInfectiousness")

ClearAllInfectiousness ==
    /\ Configuring
    /\ Install(clearAllInfectiousness(Sim), "clearAllInfectiousness")

SetClusterTransition ==
    /\ Configuring
    /\ \E c \in 1..Len(clusters), e \in TransitionEntries :
           Install(setClusterTransition(Sim, c, e[1], e[2], e[3]),
                   "setClusterTransition")

SetClusterTransitions ==
    /\ Configuring
    /\ \E c \in 1..Len(clusters), arr \in TransitionArrays :
           Install(setClusterTransitions(Sim, c, arr), "setClusterTransitions")

SetTransitions ==
    /\ Configuring
    /\ \E arr \in TransitionArrays :
           Install(setTransitions(Sim, arr), "setTransitions")

ClearClusterStateTransitions ==
    /\ Configuring
    /\ \E c \in 1..Len(clusters), name \in SetterNames :
           Install(clearClusterStateTransitions(Sim, c, name),
                   "clearClusterStateTransitions")

ClearAllClusterTransitions ==
    /\ Configuring
    /\ \E c \in 1..Len(clusters) :
           Install(clearAllClusterTransitions(Sim, c),
                   "clearAllClusterTransitions")

ClearAllTransitions ==
    /\ Configuring
    /\ Install(clearAllTransitions(Sim), "clearAllTransitions")

\* sim.setTransitions([["INFECTED_SYMPTOMATIC", "RECOVERED", 1.0]])
SetRecoveryCertain ==
    /\ Configuring
    /\ Install(setTransitions(Sim, << <<"INFECTED_SYMPTOMATIC", "RECOVERED",
                                        ProbOne>> >>), "setTransitions")

Clear ==
    /\ Configuring
    /\ Install(clear(Sim), "clear")

Next ==
    \/ Initialize
    \/ Step
    \/ Play
    \/ Pause
    \/ Stop
    \/ TimerTick

Spec == Init /\ [][Next]_vars

\* play(), pause() and the timer together with the sliders of the user
\* interface.
NextUI ==
    \/ Initialize
    \/ Play
    \/ Pause
    \/ TimerTick
    \/ SpeedSlider
    \/ AgentsSlider

InitUI == InitFrom(UIOptions)

SpecUI == InitUI /\ [][NextUI]_vars

\* Populations of two agents, advanced tick by tick.
InitAgents == InitFrom(AgentOptions)

NextAgents ==
    \/ Initialize
    \/ iteration < MaxAgentTicks /\ Step

SpecAgents == InitAgents /\ [][NextAgents]_vars

\* Populations of two agents of simulations constructed with the option
\* elasticCollisions: false.
InelasticOptions == {options \in AgentOptions : ~options.elasticCollisions}

InitInelastic == InitFrom(InelasticOptions)

SpecInelastic == InitInelastic /\ [][NextAgents]_vars

\* Indices of DIRECTION: [0, 1] and [1, 0].
AxisDirections == {5, 7}

\* One agent, in one cluster or in the first of two, of a simulation
\* constructed with movementRandomnessMean 0.5 or 1 (and the default
\* movementRandomnessStdev 0).
RandomnessOptions ==
    [width : {4}, height : {2}, numAgents : {0}, interval : {0},
     agentRadius : {1}, movementRandomnessMean : {ProbOne \div 2, ProbOne},
     elasticCollisions : {TRUE},
     maxIterations : {0},
     simulationStates : {ToyStates},
     directions : {AxisDirections},
     clusters : { << ClusterOption(1, 0, 0, 4, 2) >>,
                  << ClusterOption(1, 0, 0, 4, 2),
                     ClusterOption(0, 0, 0, 4, 2) >> }]

InitRandomness == InitFrom(RandomnessOptions)

SpecRandomness == InitRandomness /\ [][NextAgents]_vars

\* A population of two agents advanced tick by tick while the area slider
\* is moved.
InitGeometry == InitFrom(GeometryOptions)

NextGeometry ==
    \/ Initialize
    \/ iteration < MaxAgentTicks /\ Step
    \/ AreaSlider

SpecGeometry == InitGeometry /\ [][NextGeometry]_vars
\* A population of two agents advanced tick by tick, resized with the agents
\* slider and stopped.
InitHistory == InitFrom(HistoryOptions)

NextHistory ==
    \/ Initialize
    \/ iteration < MaxAgentTicks /\ Step
    \/ AgentsSlider

SpecHistory == InitHistory /\ [][NextHistory]_vars

\* A population that is created by initialize() and then created again,
\* resized with the agents sliders and advanced tick by tick.
InitPopulation == InitFrom(PopulationOptions)

NextPopulation ==
    \/ Initialize
    \/ op # "new" /\ InitializeAgain
    \/ op # "new" /\ AgentsSlider
    \/ op # "new" /\ iteration < MaxAgentTicks /\ Step

SpecPopulation == InitPopulation /\ [][NextPopulation]_vars

\* The default catalog with recovery from INFECTED_SYMPTOMATIC made certain,
\* agents drawn into any compartment, and exactly one tick.
InitScenario == InitFrom(ScenarioOptions)

NextScenario ==
    \/ SetRecoveryCertain
    \/ Initialize
    \/ op = "initialize" /\ Step

SpecScenario == InitScenario /\ [][NextScenario]_vars

\* One agent drawn INFECTED_SYMPTOMATIC in one cluster.
SymptomaticStates ==
    [k \in 1..Len(ToyStates) |->
        [ToyStates[k] EXCEPT !.initialRatio =
            IF ToyStates[k].name = "INFECTED_SYMPTOMATIC" THEN 1 ELSE 0]]

EditOptions ==
    [width : {2}, height : {2}, numAgents : {0}, interval : {0},
     agentRadius : {1}, movementRandomnessMean : {0}, elasticCollisions : {TRUE},
     maxIterations : {0},
     simulationStates : {ToyStates, SymptomaticStates},
     directions : {RightDirection},
     clusters : ClusterOptions]

\* Transitions set on a constructed simulation, then initialize() and ticks.
InitEdits == InitFrom(EditOptions)

NextEdits ==
    \/ SetTransitions
    \/ Initialize
    \/ op # "new" /\ iteration < MaxAgentTicks /\ Step

SpecEdits == InitEdits /\ [][NextEdits]_vars

\* Construction, one catalog operation, initialize().
InitCatalog == InitFrom(CatalogOptions)

NextCatalog ==
    \/ SetClusterInitialRatio
    \/ SetInitialRatio
    \/ SetInitialRatios
    \/ ClearClusterInitialRatio
    \/ ClearInitialRatioOp
    \/ ClearAllInitialRatios
    \/ SetClusterStateInfectiousness
    \/ SetInfectiousness
    \/ SetClusterInfectiousnesses
    \/ SetInfectiousnesses
    \/ ClearClusterStateInfectiousness
    \/ ClearClusterInfectiousness
    \/ ClearAllInfectiousness
    \/ SetClusterTransition
    \/ SetClusterTransitions
    \/ SetTransitions
    \/ ClearClusterStateTransitions
    \/ ClearAllClusterTransitions
    \/ ClearAllTransitions
    \/ Clear
    \/ Initialize

SpecCatalog == InitCatalog /\ [][NextCatalog]_vars

\* play() and the timer alone, the timer firing for as long as it is
\* registered (setInterval repeats its callback until clearInterval).
NextLive ==
    \/ Initialize
    \/ Play
    \/ TimerTick

SpecLive == Init /\ [][NextLive]_vars /\ WF_vars(TimerTick)

----------------------------------------------------------------------------
(* Properties *)

\* The agent at index i is the same agent before and after the step.
SameAgent(i) == i <= Len(agents') /\ agents'[i].id = agents[i].id

IsDead(agent) == Len(agent.states) > 0 /\ GetStateKey(agent) = "DEAD"

\* C1: a stop() issued when the simulation is paused after a completed stop()
\* does not run the AFTER phase again.
C1_StopDoesNotRerunAfter ==
    [][(op = "stop" /\ state = PAUSED /\ op' = "stop") => afterRuns' = afterRuns]_vars

\* C2: the BEFORE phase runs exactly once per run: before the first DURING
\* tick, and never a second time.
C2_BeforeRunsOnce ==
    /\ beforeRuns <= 1
    /\ iteration > 0 => beforeRuns = 1

C4_AutoHalt ==
    (op = "play" /\ iteration = 0 /\ config.maxIterations > 0)
        ~> (/\ iteration = config.maxIterations
            /\ state = PAUSED
            /\ timers = {}
            /\ afterRuns = 1)

\* C4 witness: a timer tick has brought the counter to M and halted the run.
C4_Witness ==
    /\ op = "tick"
    /\ config.maxIterations > 0
    /\ iteration = config.maxIterations
    /\ state = PAUSED
    /\ timers = {}
    /\ afterRuns = 1

\* C5: step() called while PAUSED advances the iteration counter by exactly
\* one, leaves the state PAUSED and registers no timer.
C5_StepOneTick ==
    [][(op' = "step" /\ state = PAUSED) =>
          /\ iteration' = iteration + 1
          /\ state' = PAUSED
          /\ timers' = timers
          /\ timer' = timer]_vars

\* C5 witness: step() has been called repeatedly while PAUSED.
C5_Witness ==
    /\ op = "step"
    /\ state = PAUSED
    /\ iteration >= 2
    /\ timers = {}

\* C6: pause() leaves the state PAUSED with no timer registered and changes
\* nothing else; when already PAUSED it changes nothing at all, and applying
\* it twice is applying it once; while PAUSED only step() performs a tick.
C6_PauseIdempotent ==
    [][/\ op' = "pause" =>
            /\ state' = PAUSED
            /\ timers' = {}
            /\ timer' = NoTimer
            /\ Sim' = pause(Sim)
            /\ pause(Sim') = Sim'
            /\ state = PAUSED => Sim' = Sim
       /\ (state = PAUSED /\ iteration' # iteration) => op' = "step"]_vars

\* C6 witness: pause() has been called during a run that has ticked.
C6_Witness ==
    /\ op = "pause"
    /\ state = PAUSED
    /\ iteration > 0
    /\ timers = {}

\* C7: in one DURING tick the history of an agent gains at most one entry.
C7_OneTransitionPerTick ==
    [][iteration' = iteration + 1 =>
          \A i \in 1..Len(agents) :
              SameAgent(i) =>
                  Len(agents'[i].states) <= Len(agents[i].states) + 1]_vars

\* C8: transition evaluation tries only the edges of the compartment the
\* agent held when it started: the history is left unchanged, or gains one
\* entry whose destination is an edge of that compartment.
C8_FirstMatchOfStartCompartment ==
    \A s2 \in eventAdvanceAgents(Sim) :
        \A i \in 1..Len(agents) :
            LET h == agents[i].states
                h2 == s2.agents[i].states
                edges == GetState(Sim, agents[i]).nextStateProb
            IN  \/ h2 = h
                \/ /\ Len(h2) = Len(h) + 1
                   /\ SubSeq(h2, 1, Len(h)) = h
                   /\ h2[Len(h2)][1] = iteration
                   /\ \E j \in 1..Len(edges) : h2[Len(h2)][2] = edges[j].to

\* C9: with no outgoing transitions for DEAD, no operation appends a history
\* entry to an agent whose current compartment is DEAD.
C9_DeadIsAbsorbing ==
    [][\A i \in 1..Len(agents) :
          (/\ IsDead(agents[i])
           /\ GetState(Sim, agents[i]).nextStateProb = << >>
           /\ SameAgent(i)) =>
              agents'[i].states = agents[i].states]_vars

\* C9 witness: an agent died in an earlier tick and a further tick has run
\* while another agent was alive and infectious.
C9_Witness ==
    \E i, j \in 1..Len(agents) :
        /\ IsDead(agents[i])
        /\ iteration >= agents[i].states[Len(agents[i].states)][1] + 2
        /\ ~IsDead(agents[j])
        /\ GetInfectiousness(Sim, agents[j]) > 0

\* C10: the velocity of a DEAD agent is never modified.
C10_DeadVelocityKept ==
    [][\A i \in 1..Len(agents) :
          (IsDead(agents[i]) /\ SameAgent(i)) =>
              /\ agents'[i].dx = agents[i].dx
              /\ agents'[i].dy = agents[i].dy]_vars

\* C11: once an agent's current compartment is DEAD, no operation changes its
\* position (x, y).
C11_DeadPositionKept ==
    [][\A i \in 1..Len(agents) :
          (IsDead(agents[i]) /\ SameAgent(i)) =>
              /\ agents'[i].x = agents[i].x
              /\ agents'[i].y = agents[i].y]_vars

\* C12: the history of an agent that remains in the simulation is only ever
\* appended to: the history before an operation is a prefix of the history
\* after it.
C12_HistoryAppendOnly ==
    [][\A i \in 1..Len(agents) :
          SameAgent(i) =>
              /\ Len(agents'[i].states) >= Len(agents[i].states)
              /\ SubSeq(agents'[i].states, 1, Len(agents[i].states)) =
                     agents[i].states]_vars

\* C12 witness: an agent with a history of several entries is still in the
\* simulation after the agents slider removed another one.
C12_Witness ==
    /\ op = "agents"
    /\ Len(agents) = 1
    /\ Len(agents[1].states) >= 2

\* C13: after initialize() and after a move of the agents slider, every agent
\* of the agent list has a non-empty history.
C13_HistoriesNonEmpty ==
    op \in {"initialize", "agents"} =>
        \A i \in 1..Len(agents) : agents[i].states # << >>

\* The agent at index m is SUSCEPTIBLE now.
IsSusceptible(m) == GetStateKey(agents[m]) = "SUSCEPTIBLE"

\* The agent at index m has strictly positive infectiousness now.
IsInfectious(m) == GetInfectiousness(Sim, agents[m]) > 0

SwapCount(a, b) ==
    Cardinality({k \in 1..Len(swaps) : swaps[k] \in {<<a, b>>, <<b, a>>}})

\* C15: in one DURING tick the velocity vectors of a pair of agents are
\* swapped at most once, whatever the number of clusters.
C15_OneSwapPerPair ==
    op \in {"step", "tick"} =>
        \A i, j \in 1..Len(agents) :
            SwapCount(agents[i].id, agents[j].id) <= 1

\* The call that ended in s2 failed and left every catalog as it is now.
Rejected(s2) == s2.thrown # NoError /\ s2.clusters = clusters

\* An entry of the array names a compartment that is not in the catalog.
NamesUnknown(arr, fields) ==
    \E k \in 1..Len(arr), f \in fields : arr[k][f] \in UnknownNames

\* C16: every catalog setter called with a compartment name that is not in
\* the catalog, as source or as destination, fails with an error and leaves
\* every cluster's catalog as it was.
C16_UnknownNameRejected ==
    /\ \A c \in 1..Len(clusters), name \in UnknownNames :
           /\ \A val \in RatioValues :
                  Rejected(setClusterInitialRatio(Sim, c, name, val))
           /\ \A val \in ProbValues :
                  Rejected(setClusterStateInfectiousness(Sim, c, name, val))
           /\ Rejected(clearClusterInitialRatio(Sim, c, name))
           /\ Rejected(clearClusterStateInfectiousness(Sim, c, name))
           /\ Rejected(clearClusterStateTransitions(Sim, c, name))
    /\ \A name \in UnknownNames :
           /\ \A val \in RatioValues : Rejected(setInitialRatio(Sim, name, val))
           /\ \A val \in ProbValues : Rejected(setInfectiousness(Sim, name, val))
           /\ Rejected(ClearInitialRatio(Sim, name))
    /\ \A arr \in RatioArrays :
           NamesUnknown(arr, {1}) => Rejected(setInitialRatios(Sim, arr))
    /\ \A arr \in ProbArrays :
           NamesUnknown(arr, {1}) =>
               /\ Rejected(setInfectiousnesses(Sim, arr))
               /\ \A c \in 1..Len(clusters) :
                      Rejected(setClusterInfectiousnesses(Sim, c, arr))
    /\ \A arr \in TransitionArrays :
           NamesUnknown(arr, {1, 2}) =>
               /\ Rejected(setTransitions(Sim, arr))
               /\ \A c \in 1..Len(clusters) :
                      /\ Rejected(setClusterTransitions(Sim, c, arr))
                      /\ Len(arr) = 1 =>
                             Rejected(setClusterTransition(Sim, c, arr[1][1],
                                                           arr[1][2], arr[1][3]))

\* The call that ended in s2 returned, and left in every cluster c the
\* catalog expected[c].
SameAsEachCluster(s2, expected) ==
    /\ s2.thrown = NoError
    /\ \A c \in 1..Len(clusters) : s2.clusters[c] = expected[c]

\* C17: for compartment names of the catalog, each all-clusters form of a
\* catalog operation returns without error and leaves every cluster's
\* catalog as the cluster-scoped operation applied to that cluster does.
C17_ConvenienceFormsAgree ==
    /\ \A name \in KnownNames :
           /\ \A val \in RatioValues :
                  SameAsEachCluster(
                      setInitialRatios(Sim, << <<name, val>> >>),
                      [c \in 1..Len(clusters) |->
                          setClusterInitialRatio(Sim, c, name, val).clusters[c]])
           /\ \A val \in ProbValues :
                  SameAsEachCluster(
                      setInfectiousnesses(Sim, << <<name, val>> >>),
                      [c \in 1..Len(clusters) |->
                          setClusterStateInfectiousness(Sim, c, name, val).clusters[c]])
    /\ \A e \in TransitionEntries :
           ~NamesUnknown(<<e>>, {1, 2}) =>
               SameAsEachCluster(
                   setTransitions(Sim, <<e>>),
                   [c \in 1..Len(clusters) |->
                       setClusterTransition(Sim, c, e[1], e[2], e[3]).clusters[c]])
    /\ clearAllInitialRatios(Sim).thrown = NoError
    /\ \A c \in 1..Len(clusters) : \A k \in 1..Len(clusters[c].states) :
           clearAllInitialRatios(Sim).clusters[c].states[k] =
               clearClusterInitialRatio(Sim, c, clusters[c].states[k].name)
                   .clusters[c].states[k]
    /\ SameAsEachCluster(
           clearAllInfectiousness(Sim),
           [c \in 1..Len(clusters) |->
               clearClusterInfectiousness(Sim, c).clusters[c]])
    /\ SameAsEachCluster(
           clearAllTransitions(Sim),
           [c \in 1..Len(clusters) |->
               clearAllClusterTransitions(Sim, c).clusters[c]])
    /\ SameAsEachCluster(
           clear(Sim),
           [c \in 1..Len(clusters) |->
               [clusters[c] EXCEPT !.states =
                   [k \in 1..Len(clusters[c].states) |->
                       [clusters[c].states[k] EXCEPT !.initialRatio = 0,
                                                     !.infectiousness = 0,
                                                     !.nextStateProb = << >>]]]])

\* The initial-ratio weights of cluster c add up to zero.
ZeroWeight(c) == SumRatios(clusters[c].states, Len(clusters[c].states)) = 0

\* C18: when the initial-ratio weights of a cluster add up to zero,
\* initialize() ends with an error and leaves no agent without a compartment.
C18_ZeroWeightRejected ==
    (op = "initialize" /\ \E c \in 1..Len(clusters) : ZeroWeight(c)) =>
        /\ thrown # NoError
        /\ \A i \in 1..Len(agents) : agents[i].states # << >>
\* The rows that the step has appended to the results log.
NewRows == SubSeq(results', Len(results) + 1, Len(results'))

\* The number of appended rows whose first field is one of the given markers.
RowsMarked(markers) ==
    Cardinality({k \in 1..Len(NewRows) : NewRows[k][1] \in markers})

\* The counter values in counter order, after the step.
CounterRow == [k \in 1..Len(CounterNames) |-> counters'[CounterNames[k]]]

\* C19: a DURING tick appends exactly one row whose first field is a numeric
\* iteration index; that field is the index of the tick and the remaining
\* fields are the counter values in counter order, for any number of
\* clusters.
C19_OneRowPerTick ==
    [][iteration' = iteration + 1 =>
          /\ Len(results') >= Len(results)
          /\ RowsMarked(0..MaxIteration) = 1
          /\ \A k \in 1..Len(NewRows) :
                 NewRows[k][1] >= 0 => NewRows[k] = <<iteration>> \o CounterRow]_vars

\* C20: with the default event lists, a run of the BEFORE phase appends
\* exactly one row marked "S" and a run of the AFTER phase appends exactly
\* one row marked "E".
C20_OneMarkerRowPerPhase ==
    [][/\ Len(results') >= Len(results)
       /\ beforeRuns' = beforeRuns + 1 => RowsMarked({MarkerS}) = 1
       /\ afterRuns' = afterRuns + 1 => RowsMarked({MarkerE}) = 1]_vars
\* C21: immediately after a metrics recomputation every per-compartment
\* counter is the number of agents currently in that compartment, infections
\* is the number of agents in a compartment marked infectious and alive is
\* the number of agents not in DEAD, whatever the counters held before.
C21_CountersMatchAgents ==
    (\A i \in 1..Len(agents) : agents[i].states # << >>) =>
        \A s2 \in eventCalcResults(Sim) :
            /\ s2.thrown = NoError
            /\ op \in {"initialize", "step"} => counters = s2.counters
            /\ \A n \in 1..Len(SimulationStates) :
                   s2.counters[SimulationStates[n].name] =
                       Cardinality({i \in 1..Len(agents) :
                           GetStateKey(agents[i]) = SimulationStates[n].name})
            /\ s2.counters["infections"] =
                   Cardinality({i \in 1..Len(agents) :
                       GetState(Sim, agents[i]).infected})
            /\ s2.counters["alive"] =
                   Cardinality({i \in 1..Len(agents) :
                       GetStateKey(agents[i]) # "DEAD"})

\* A tick has recomputed the counters of a population with one DEAD and one
\* infectious agent.
C21_Witness ==
    /\ op = "step"
    /\ Len(agents) = 2
    /\ counters["DEAD"] = 1
    /\ counters["alive"] = 1
    /\ counters["infections"] = 1

\* The first entry of the agent's history names a compartment that the
\* catalog of the agent's cluster marks as infected.
DrawnInfectious(agent) ==
    /\ agent.states # << >>
    /\ LET cat == clusters[agent.cluster].states
       IN  cat[StateIndex(cat, agent.states[1][2])].infected

\* C22: immediately after a call of initialize(), total_initial_infections
\* is the number of agents of the agent list whose drawn initial compartment
\* is marked infectious.
C22_InitialInfectionsMatchAgents ==
    op = "initialize" =>
        counters["total_initial_infections"] =
            Cardinality({i \in 1..Len(agents) : DrawnInfectious(agents[i])})

\* C23: once initialize() has completed, no later operation (a tick with its
\* metrics recomputation, a resize with an agents slider, a stop) changes
\* total_initial_infections.
C23_InitialInfectionsFrozen ==
    [][(op # "new" /\ op' # "initialize") =>
          counters'["total_initial_infections"] =
              counters["total_initial_infections"]]_vars

\* The number of entries INFECTED_EXPOSED with a numeric marker that the step
\* has appended to the history of the agent at index i.
RECURSIVE NewExposures(_)
NewExposures(i) ==
    IF i = 0 THEN 0
    ELSE NewExposures(i - 1) +
         IF SameAgent(i)
           THEN Cardinality({k \in (Len(agents[i].states) + 1)..Len(agents'[i].states) :
                               /\ agents'[i].states[k][1] >= 0
                               /\ agents'[i].states[k][2] = "INFECTED_EXPOSED"})
           ELSE 0

\* C24: total_simulation_infections grows by exactly one for each
\* INFECTED_EXPOSED entry that a collision appends to a history, and no
\* operation resets or lowers it.
C24_SimulationInfectionsCountTransmissions ==
    [][counters'["total_simulation_infections"] =
           counters["total_simulation_infections"] + NewExposures(Len(agents))]_vars

\* A tick in which a collision has infected an agent.
C24_Witness ==
    /\ op = "step"
    /\ counters["total_simulation_infections"] >= 1
    /\ \E i \in 1..Len(agents) :
           /\ Len(agents[i].states) >= 2
           /\ agents[i].states[2] = <<iteration - 1, "INFECTED_EXPOSED">>

\* The number of agents of the list ags that belong to cluster c.
ClusterSize(ags, c) == Cardinality({i \in 1..Len(ags) : ags[i].cluster = c})

\* C25: raising the agent count of a cluster by d with its agents slider
\* appends exactly d agents of that cluster, gives each of them, and no
\* other agent, an initial compartment, and leaves the histories of the
\* agents that were there and total_simulation_infections unchanged.
C25_GrowthAddsDelta ==
    op # "new" =>
        \A c \in 1..Len(clusters), numAgents \in 0..MaxAgents :
            numAgents > ClusterSize(agents, c) =>
                \A s2 \in agentsSlider(Sim, c, numAgents) :
                    /\ Len(s2.agents) =
                           Len(agents) + numAgents - ClusterSize(agents, c)
                    /\ SubSeq(s2.agents, 1, Len(agents)) = agents
                    /\ \A i \in (Len(agents) + 1)..Len(s2.agents) :
                           /\ s2.agents[i].cluster = c
                           /\ Len(s2.agents[i].states) = 1
                           /\ s2.agents[i].states[1][1] = MarkerS
                    /\ s2.counters["total_simulation_infections"] =
                           counters["total_simulation_infections"]

\* The edge INFECTED_SYMPTOMATIC -> RECOVERED has probability 1.0 in the
\* catalog of every cluster.
RecoveryCertain ==
    \A c \in 1..Len(clusters) :
        LET cat == clusters[c].states
            edges == cat[StateIndex(cat, "INFECTED_SYMPTOMATIC")].nextStateProb
        IN  \E j \in 1..Len(edges) :
                edges[j].to = "RECOVERED" /\ edges[j].prob = ProbOne

\* The step is one DURING tick.
OneTick == op' = "step" /\ iteration' = iteration + 1 /\ thrown' = NoError

\* C26: with the probability of INFECTED_SYMPTOMATIC -> RECOVERED set to 1.0
\* on the default catalog, every agent that is INFECTED_SYMPTOMATIC at the
\* start of a DURING tick is RECOVERED at the end of it.
C26_SymptomaticRecover ==
    [][(RecoveryCertain /\ OneTick) =>
          \A i \in 1..Len(agents) :
              GetStateKey(agents[i]) = "INFECTED_SYMPTOMATIC" =>
                  GetStateKey(agents'[i]) = "RECOVERED"]_vars

\* C27: with the probability of INFECTED_SYMPTOMATIC -> RECOVERED set to 1.0
\* on the default catalog, the INFECTED_SYMPTOMATIC counter reads 0 after a
\* DURING tick, whatever compartments the agents held at its start.
C27_SymptomaticCounterZero ==
    [][(RecoveryCertain /\ OneTick) => counters'["INFECTED_SYMPTOMATIC"] = 0]_vars

\* After the tick: one agent started it INFECTED_SYMPTOMATIC and has left
\* that compartment, another started it INFECTED_ASYMPTOMATIC and entered
\* INFECTED_SYMPTOMATIC during the tick.
C27_Witness ==
    /\ op = "step"
    /\ RecoveryCertain
    /\ counters["INFECTED_SYMPTOMATIC"] = 0
    /\ \E i, j \in 1..Len(agents) :
           /\ agents[i].states[1][2] = "INFECTED_SYMPTOMATIC"
           /\ Len(agents[i].states) >= 2
           /\ agents[j].states[1][2] = "INFECTED_ASYMPTOMATIC"
           /\ Len(agents[j].states) >= 2
           /\ agents[j].states[2] = <<0, "INFECTED_SYMPTOMATIC">>

\* The cumulative proportions of the catalog cat are non-decreasing in
\* catalog order and the last one is 1.
ProportionsCumulative(cat) ==
    /\ \A k \in 1..(Len(cat) - 1) :
           /\ cat[k].initial_proportion.den = cat[k + 1].initial_proportion.den
           /\ cat[k].initial_proportion.num <= cat[k + 1].initial_proportion.num
    /\ cat[1].initial_proportion.num >= 0
    /\ cat[Len(cat)].initial_proportion.num = cat[Len(cat)].initial_proportion.den

CreatedAgents ==
    IF op' = "initialize" THEN 1..Len(agents')
    ELSE (Len(agents) + 1)..Len(agents')

\* C29: agent ids are unique and never reused: the counter the ids are taken
\* from never goes back, every id issued so far is below it, and every agent
\* created by initialize() or by a growth gets an id that is not below the
\* counter's value before the step, hence above every id issued before.
C29_IdsNeverReused ==
    [][/\ agentCounter' >= agentCounter
       /\ \A i \in 1..Len(agents') : agents'[i].id < agentCounter'
       /\ \A i, j \in 1..Len(agents') : i < j => agents'[i].id < agents'[j].id
       /\ \A i \in CreatedAgents : agents'[i].id >= agentCounter
       /\ \A i \in (1..Len(agents')) \ CreatedAgents : agents'[i].id = agents[i].id]_vars

\* An agent created after an earlier one was discarded holds a later id.
C29_Witness ==
    /\ op \in {"initialize", "agents"}
    /\ Len(agents) = 1
    /\ agents[1].id = 1
    /\ agentCounter = 2

\* The call on the cluster at index c that ended in s2 has left the catalog
\* of every other cluster and SimulationStates as they are now.
OthersKept(s2, c) ==
    /\ \A d \in (1..Len(clusters)) \ {c} : s2.clusters[d] = clusters[d]
    /\ s2.env.template = env.template

\* C30: a cluster-scoped catalog operation (set or clear a ratio, an
\* infectiousness or transitions) on one cluster leaves the catalog of every
\* other cluster and the default template unchanged.
C30_CatalogsIndependent ==
    /\ env.template = SimulationStates
    /\ \A c \in 1..Len(clusters) :
           /\ OthersKept(clearClusterInfectiousness(Sim, c), c)
           /\ OthersKept(clearAllClusterTransitions(Sim, c), c)
           /\ \A name \in SetterNames :
                  /\ \A val \in RatioValues :
                         OthersKept(setClusterInitialRatio(Sim, c, name, val), c)
                  /\ \A val \in ProbValues :
                         OthersKept(setClusterStateInfectiousness(Sim, c, name, val), c)
                  /\ OthersKept(clearClusterInitialRatio(Sim, c, name), c)
                  /\ OthersKept(clearClusterStateInfectiousness(Sim, c, name), c)
                  /\ OthersKept(clearClusterStateTransitions(Sim, c, name), c)
           /\ \A arr \in TransitionArrays :
                  OthersKept(setClusterTransitions(Sim, c, arr), c)
           /\ \A arr \in ProbArrays :
                  OthersKept(setClusterInfectiousnesses(Sim, c, arr), c)

\* A cluster-scoped operation has changed the catalog of one of two clusters
\* and not the other's.
C30_Witness ==
    /\ op \in {"setClusterInitialRatio", "setClusterStateInfectiousness",
               "setClusterTransition", "clearClusterStateTransitions"}
    /\ Len(clusters) = 2
    /\ clusters[1].states # clusters[2].states
    /\ env.template = SimulationStates

\* The agent lies in the rectangle of its cluster inset by the radius.
InsideCluster(agent) ==
    LET c == clusters[agent.cluster]
        r == config.agentRadius
    IN  /\ c.left + r <= agent.x /\ agent.x <= c.right - r
        /\ c.top + r <= agent.y /\ agent.y <= c.bottom - r

\* C31: after construction and after every move, every agent that is not
\* DEAD lies inside the rectangle of its cluster inset by its radius, in
\* clusters at least a diameter wide and high, whatever velocity reflection
\* or an elastic swap gave it.
C31_AgentsInsideCluster ==
    \A i \in 1..Len(agents) :
        (/\ ~IsDead(agents[i])
         /\ clusters[agents[i].cluster].right - clusters[agents[i].cluster].left
                >= 2 * config.agentRadius
         /\ clusters[agents[i].cluster].bottom - clusters[agents[i].cluster].top
                >= 2 * config.agentRadius)
            => InsideCluster(agents[i])

\* A tick has swapped the velocities of two agents and left one of them on
\* the right edge of the inset rectangle.
C31_Witness ==
    /\ op = "step"
    /\ swaps # << >>
    /\ \E i \in 1..Len(agents) :
           /\ ~IsDead(agents[i])
           /\ agents[i].x = clusters[agents[i].cluster].right - config.agentRadius

\* The agents of the next state have the positions and velocities of the
\* agents of s2.
SameKinematics(s2) ==
    /\ Len(agents') = Len(s2.agents)
    /\ \A i \in 1..Len(agents') :
           /\ agents'[i].x = s2.agents[i].x /\ agents'[i].y = s2.agents[i].y
           /\ agents'[i].dx = s2.agents[i].dx /\ agents'[i].dy = s2.agents[i].dy

\* C32: in one DURING tick every agent that is not DEAD is moved exactly
\* once, whatever the number of clusters: when no agent is DEAD at the end of
\* the tick, the positions and velocities are those one pass of the moves of
\* all agents gives.
C32_MovedOncePerTick ==
    [][(/\ op' = "step" /\ iteration' = iteration + 1 /\ thrown' = NoError
        /\ \A i \in 1..Len(agents) : agents[i].states # << >>
        /\ \A i \in 1..Len(agents') : ~IsDead(agents'[i]))
          => \E s2 \in eventMoveAgents(Sim) : SameKinematics(s2)]_vars

\* The number of agents of ags whose current compartment is one of names.
CountIn(ags, names) ==
    Cardinality({i \in 1..Len(ags) :
                    /\ ags[i].states # << >>
                    /\ GetStateKey(ags[i]) \in names})

\* The row holds, for every compartment and for alive, the number of agents
\* of ags counted under it.
RowAgrees(row, ags) ==
    \A k \in 1..Len(CounterNames) :
        /\ ~IsTotalKey(CounterNames[k]) /\ CounterNames[k] # "infections" =>
               row[k + 1] =
                   IF CounterNames[k] = "alive"
                     THEN Len(ags) - CountIn(ags, {"DEAD"})
                     ELSE CountIn(ags, {CounterNames[k]})

\* C33: in a DURING tick the transitions, the moves, the recomputation of
\* the counters and the recording run in this order and the iteration
\* counter advances afterwards: every numbered row the tick records carries
\* the index of the tick and counters that agree with the compartments the
\* agents are in at the end of the tick.
C33_RowAgreesWithAgents ==
    [][(iteration' = iteration + 1 /\ thrown' = NoError) =>
          /\ Len(results') > Len(results)
          /\ \E k \in 1..Len(NewRows) : NewRows[k][1] >= 0
          /\ \A k \in 1..Len(NewRows) :
                 NewRows[k][1] >= 0 =>
                     /\ NewRows[k][1] = iteration
                     /\ RowAgrees(NewRows[k], agents')]_vars

\* C34: the elastic-collision flag given at construction is honoured: in a
\* simulation constructed with the flag false no collision swaps the
\* velocities of the colliding pair.
C34_InelasticNeverSwaps == swaps = << >>

\* The velocity of b is neither the velocity of a nor a reflection of it.
Redrawn(a, b) == b.dx \notin {a.dx, -a.dx} \/ b.dy \notin {a.dy, -a.dy}

\* C35: with movement randomness configured above zero, a move of an agent
\* that is not DEAD can re-draw its velocity from the fixed directions: the
\* move has an outcome without a swap in which the velocity is not the old
\* one nor a reflection of it.
C35_RedrawReachable ==
    \A i \in 1..Len(agents) :
        (/\ config.movementRandomnessMean > 0
         /\ agents[i].states # << >>
         /\ ~IsDead(agents[i]))
            => \E s2 \in Move(Sim, i) :
                   s2.swaps = << >> /\ Redrawn(agents[i], s2.agents[i])

\* C36: between operations and ticks the state is PLAYING exactly when a
\* repeating timer is registered, which is then the timer the simulation
\* holds, and PAUSED exactly when none is.
C36_PlayingIffTimer ==
    /\ state \in {PLAYING, PAUSED}
    /\ state = PLAYING => timer # NoTimer /\ timers = {timer}
    /\ state = PAUSED => timer = NoTimer /\ timers = {}

\* The timer callback has halted the run at the iteration limit: the run is
\* PAUSED and no timer is left.
C36_Witness ==
    /\ op = "tick"
    /\ state = PAUSED
    /\ timers = {}
    /\ afterRuns = 1
    /\ iteration = config.maxIterations

\* C37: with maxIterations = M > 0 the iteration counter never exceeds M: no
\* step() or play() after the halt at M runs a further DURING tick.
C37_IterationWithinLimit ==
    config.maxIterations > 0 => iteration <= config.maxIterations

\* C38: every entry of every agent's history names a compartment of the
\* catalog of the agent's cluster, after any catalog edits, ticks and
\* infections, and so no tick aborts part-way through its event list.
C38_HistoriesNameCompartments ==
    /\ \A i \in 1..Len(agents) :
           \A k \in 1..Len(agents[i].states) :
               HasState(Sim, agents[i].cluster, agents[i].states[k][2])
    /\ op = "step" => thrown = NoError

\* The first entry of the history is marked "S"; the later entries carry
\* numbers that do not decrease along the history and do not exceed it.
HistoryMarked(hist, it) ==
    \A k \in 1..Len(hist) :
        IF k = 1 THEN hist[k][1] = MarkerS
        ELSE /\ hist[k][1] >= 0
             /\ hist[k][1] <= it
             /\ k > 2 => hist[k - 1][1] <= hist[k][1]

\* C39: the first entry of every agent's history carries the marker "S" and
\* every later entry the value the iteration counter had when the entry was
\* appended; the numeric markers do not decrease along a history and never
\* exceed the iteration counter.
C39_MarkersFollowIteration ==
    [][\A i \in 1..Len(agents') :
          /\ HistoryMarked(agents'[i].states, iteration')
          /\ (i <= Len(agents) /\ SameAgent(i)) =>
                 \A k \in (Len(agents[i].states) + 1)..Len(agents'[i].states) :
                     agents'[i].states[k][1] =
                         IF k = 1 THEN MarkerS ELSE iteration]_vars

\* An agent has entered the simulation and changed compartment in two
\* different ticks.
C39_Witness ==
    /\ op = "step"
    /\ iteration = 2
    /\ \E i \in 1..Len(agents) :
           /\ Len(agents[i].states) >= 3
           /\ agents[i].states[1][1] = MarkerS
           /\ agents[i].states[2][1] = 0
           /\ agents[i].states[Len(agents[i].states)][1] = 1

\* The compartment at index n is the first of cat, in catalog order, whose
\* cumulative proportion is strictly above the draw k / den.
FirstAbove(cat, k, n) ==
    /\ k * cat[n].initial_proportion.den < cat[n].initial_proportion.num *
                                             cat[Len(cat)].initial_proportion.den
    /\ \A m \in 1..(n - 1) :
           k * cat[m].initial_proportion.den >= cat[m].initial_proportion.num *
                                                 cat[Len(cat)].initial_proportion.den

\* C40: the initial compartment of an agent is the first compartment in
\* catalog order whose cumulative proportion strictly exceeds the agent's
\* draw, and so, when the total weight of the cluster is positive, no agent
\* starts in a compartment whose initialRatio is 0.
C40_InitialCompartmentHasWeight ==
    op = "initialize" =>
        \A i \in 1..Len(agents) :
            LET cat == clusters[agents[i].cluster].states
                bare == [Sim EXCEPT !.agents[i].states = << >>]
            IN  ~ZeroWeight(agents[i].cluster) =>
                    /\ agents[i].states # << >>
                    /\ cat[StateIndex(cat, agents[i].states[1][2])].initialRatio > 0
                    /\ \A k \in RatioDraws(bare, i) :
                           LET hist == InitialState(bare, i, k).agents[i].states
                           IN  /\ Len(hist) = 1
                               /\ hist[1][1] = MarkerS
                               /\ FirstAbove(cat, k, StateIndex(cat, hist[1][2]))

\* initialize() has drawn an agent in a cluster whose first compartment has
\* weight 0: the agent starts in a later compartment.
C40_Witness ==
    /\ op = "initialize"
    /\ \E i \in 1..Len(agents) :
           /\ ~ZeroWeight(agents[i].cluster)
           /\ clusters[agents[i].cluster].states[1].initialRatio = 0
           /\ agents[i].states = << <<MarkerS, "INFECTED_SYMPTOMATIC">> >>

====
